---- MODULE Spec2Model ----
(***************************************************************************)
(* Model of the password vault of src/src/lib/storage.ts: the three        *)
(* localStorage slots, the symbolic AES-GCM / PBKDF2 layer, and the async  *)
(* storage functions, each split at the awaits where another call can run. *)
(***************************************************************************)
EXTENDS Integers, Sequences, FiniteSets, TLC

\* ------------------------------------------------------------- bounds
\* Last value of the wall clock (milliseconds) the model lets `new Date()` reach.
MaxTime == 1
\* Number of crypto.randomUUID() draws, i.e. of entries ever created.
MaxIds == 2

\* Concurrent calls in flight (promises that have not settled yet).
Procs == {"c1", "c2"}
\* Master passwords a caller may pass.
Passwords == {"p1", "p2"}
\* Values crypto.getRandomValues can return for a salt, and for an IV.
Salts == {"s1", "s2"}
IVs == {"n1"}
\* Longest text, in characters, handed to encrypt directly.
MaxText == 2
\* Number of blobs sealed where every draw of random bytes is a new value.
MaxSeals == 4
\* Longest run of letters, digits and symbols at the head of a password whose
\* strength is evaluated (a tail without any of them brings it to length).
MaxHead == 3
\* Longest password the generator is asked for, short of the one too long for it.
MaxLength == 4
\* Number of timer ids window.setTimeout hands out before it starts over with one
\* no longer held anywhere.
MaxTimers == 3

\* ------------------------------------------------------------- storage keys
STORAGE_KEYS == [PASSWORD_VERIFIER |-> "pm_password_verifier",
                 ENCRYPTED_DATA |-> "pm_encrypted_data",
                 IS_INITIALIZED |-> "pm_initialized"]

\* A slot of localStorage is <<>> when getItem returns null, <<v>> when it holds v.
Absent == <<>>

\* ------------------------------------------------------------- entries
\* The JavaScript value undefined, as the value of an object property.
Undef == "(undefined)"

\* The user-supplied string properties of a PasswordEntry.
FieldKeys == {"serviceName", "username", "password", "url", "notes", "category"}

\* What handleSubmit passes: every form field, the empty optional ones as undefined.
NewEntries ==
    { [serviceName |-> "Mail", username |-> "a@b.com", password |-> "x",
       url |-> u, notes |-> Undef, category |-> Undef] : u \in {"https://m"} }

\* Partial<Omit<PasswordEntry,'id'|'createdAt'|'updatedAt'>> values passed to updatePassword:
\* a partial one that changes the password and clears the url.
Updates ==
    { [password |-> "y", url |-> Undef] }

NoFields == [k \in {} |-> Undef]

\* Date.prototype.toISOString: the ISO-8601 UTC text of a millisecond count.
ToISOString(ms) == [iso |-> ms]

\* Object spread {...a, ...b, updatedAt: t}: later sources win key by key.
MutMerge_TouchesCreated(a, b, t) ==
    [k \in DOMAIN a \cup DOMAIN b \cup {"updatedAt"} |->
        IF k \in {"updatedAt", "createdAt"} THEN t
        ELSE IF k \in DOMAIN b THEN b[k] ELSE a[k]]

MutMerge_StampsEpoch(a, b, t) ==
    [k \in DOMAIN a \cup DOMAIN b \cup {"updatedAt"} |->
        IF k = "updatedAt" THEN [iso |-> 0]
        ELSE IF k \in DOMAIN b THEN b[k] ELSE a[k]]

Merge(a, b, t) ==
    [k \in DOMAIN a \cup DOMAIN b \cup {"updatedAt"} |->
        IF k = "updatedAt" THEN t
        ELSE IF k \in DOMAIN b THEN b[k] ELSE a[k]]

\* ------------------------------------------------------------- EntryCodec (JSON)
\* JSON.stringify of one object: properties whose value is undefined are omitted.
StringifyObject(e) ==
    [k \in {x \in DOMAIN e : ~(x \in FieldKeys /\ e[x] = Undef)} |-> e[k]]

\* A JavaScript string is either JSON text of an array (json = TRUE, arr its
\* elements as written) or some other text, the sequence of its characters.
JSONStringify(list) ==
    [json |-> TRUE, text |-> <<>>, arr |-> [i \in 1..Len(list) |-> StringifyObject(list[i])]]

\* JSON.parse: the array for JSON text, a SyntaxError for anything else.
JSONParse(pt) ==
    IF pt.json THEN [ok |-> TRUE, val |-> pt.arr, err |-> ""]
    ELSE [ok |-> FALSE, val |-> <<>>, err |-> "SyntaxError"]

\* The sentinel, its 28 characters taken as one.
verificationString ==
    [json |-> FALSE, text |-> <<"PASSWORD_VERIFICATION_STRING">>, arr |-> <<>>]

\* U+FEFF, the byte order mark.
BOM == "U+FEFF"

Text(chars) == [json |-> FALSE, text |-> chars, arr |-> <<>>]

\* What a failed call hands back in place of a string: nothing.
NoPlaintext == Text(<<>>)

\* TextEncoder.encode: the UTF-8 bytes of the string, a leading U+FEFF included.
TextEncode(str) == [utf8 |-> str]

\* new TextDecoder().decode: the string of the UTF-8 bytes, without the byte order
\* mark when the bytes start with one (ignoreBOM is false by default).
TextDecode(buf) ==
    LET str == buf.utf8
    IN  IF ~str.json /\ Len(str.text) > 0 /\ str.text[1] = BOM
        THEN [str EXCEPT !.text = Tail(@)]
        ELSE str

\* ------------------------------------------------------------- crypto
\* PBKDF2(password, salt): deterministic, and distinct inputs give distinct keys.
MutDeriveKey_SaltOnly(password, salt) == [pw |-> "", salt |-> salt]

DeriveKey(password, salt) == [pw |-> password, salt |-> salt]

\* crypto.subtle.encrypt under AES-GCM: ciphertext and tag bind key, IV and plaintext.
SubtleEncrypt(key, iv, pt) == [key |-> key, iv |-> iv, pt |-> pt]

\* crypto.subtle.decrypt: the plaintext bytes when key and IV are the sealing ones,
\* an OperationError otherwise.
SubtleDecrypt(key, iv, ct) ==
    IF ct.key = key /\ ct.iv = iv
    THEN [ok |-> TRUE, pt |-> ct.pt, err |-> ""]
    ELSE [ok |-> FALSE, pt |-> TextEncode(NoPlaintext), err |-> "OperationError"]

MutEncrypt_SaltOfPassword(plaintext, password, salt, iv) ==
    [b64 |-> TRUE, salt |-> password, iv |-> "0",
     ct |-> SubtleEncrypt(DeriveKey(password, password), "0", TextEncode(plaintext))]

\* encrypt(plaintext, password) with the salt and IV getRandomValues returned:
\* btoa of salt ++ iv ++ ciphertext, which is base64 text (b64).
Encrypt(plaintext, password, salt, iv) ==
    [b64 |-> TRUE, salt |-> salt, iv |-> iv,
     ct |-> SubtleEncrypt(DeriveKey(password, salt), iv, TextEncode(plaintext))]

\* decrypt(encryptedData, password): atob, which throws on text that is not base64;
\* then split salt and IV off, derive the key again, open, decode the bytes.
Decrypt(encryptedData, password) ==
    IF ~encryptedData.b64
    THEN [ok |-> FALSE, pt |-> NoPlaintext, err |-> "InvalidCharacterError"]
    ELSE LET d == SubtleDecrypt(DeriveKey(password, encryptedData.salt),
                                encryptedData.iv, encryptedData.ct)
         IN  IF d.ok THEN [ok |-> TRUE, pt |-> TextDecode(d.pt), err |-> ""]
             ELSE [ok |-> FALSE, pt |-> NoPlaintext, err |-> d.err]

CreatePasswordVerifier(password, salt, iv) == Encrypt(verificationString, password, salt, iv)

MutVerifyPassword_AnyPlaintext(password, verifier) ==
    Decrypt(verifier, password).ok

\* try { return (await decrypt(verifier, password)) === sentinel } catch { return false }
VerifyPassword(password, verifier) ==
    LET d == Decrypt(verifier, password)
    IN  IF d.ok THEN d.pt = verificationString ELSE FALSE

\* ------------------------------------------------------------- state
VARIABLES
    localStorage,   \* the three slots, keyed by STORAGE_KEYS
    now,            \* the wall clock read by new Date()
    nextId,         \* the next value crypto.randomUUID() returns
    pc,             \* per call: the await it is suspended at, or "idle"
    call,           \* per call: the function and its arguments
    blobRead,       \* per call: what localStorage.getItem returned
    passwords,      \* per call: the array getPasswords returned, as modified
    index,          \* per call: findIndex result, 1-based, 0 for -1
    stale,          \* per call: the data slot was written since this call read it
    last,           \* the call that settled in the latest step, if one did, and how
    lastAdd,        \* the last data write, when it was an addPassword nobody raced
    seals,          \* the <<salt, iv>> of every blob the storage functions have written
    trial,          \* encrypt / decrypt / verifyPassword called on their own: arguments and results
    tool,           \* generatePassword / evaluatePasswordStrength: arguments and result of a call
    auth            \* the AuthProvider: its state, its pending call, its effect and timers

vars == <<localStorage, now, nextId, pc, call, blobRead, passwords, index, stale, last, lastAdd,
          seals, trial, tool, auth>>

\* What the storage functions never touch.
apart == <<trial, tool, auth>>

locals == <<blobRead, passwords, index>>

\* How a promise settled. kind: "pending", "void", "bool", "null", "entry", "list"
\* (values) or "throw" (rejection, err naming what was thrown).
Settled(kind, b, es, e) == [kind |-> kind, bool |-> b, entries |-> es, err |-> e]
Pending == Settled("pending", FALSE, <<>>, "")
RetVoid == Settled("void", FALSE, <<>>, "")
RetBool(b) == Settled("bool", b, <<>>, "")
RetNull == Settled("null", FALSE, <<>>, "")
RetEntry(e) == Settled("entry", FALSE, <<e>>, "")
RetList(l) == Settled("list", FALSE, l, "")
Throw(e) == Settled("throw", FALSE, <<>>, e)

\* new Error('データの復号に失敗しました'), the one error getPasswords throws.
DecryptFailedError == "Error: data decryption failed"

NoCall == [op |-> "none", pw |-> "", id |-> 0, fields |-> NoFields]

\* A settled call: its function and arguments, whether the data slot was written
\* between its read and its end, the data slot as its last step found it, and how
\* its promise settled.
Outcome(c, raced, before, r) == [call |-> c, raced |-> raced, before |-> before, ret |-> r]
NoOutcome == Outcome(NoCall, FALSE, Absent, Pending)
NoLastAdd == [id |-> 0, before |-> <<>>]

\* No call of generatePassword or evaluatePasswordStrength made yet. options,
\* password and chars are <<>> or <<v>>.
NoTool ==
    [fn |-> "none", options |-> <<>>, password |-> <<>>,
     random |-> [math |-> <<>>, values |-> <<>>, shuffle |-> <<>>], chars |-> <<>>, ret |-> Pending]

\* The AuthProvider as mounted: the useState initial values, nothing pending.
\* React state of AuthProvider as last rendered, with isLoading of LoginScreen
\* (submitting); masterPassword is <<>> for null.
NoSession ==
    [isAuthenticated |-> FALSE, isInitialized |-> FALSE, isLoading |-> TRUE,
     masterPassword |-> <<>>, submitting |-> FALSE]

\* AuthProvider just rendered for the first time: queue holds the state the next
\* render commits, passive names the effects not yet run, listeners and timeoutId
\* belong to the idle effect that is set up (0 for undefined), timers are the
\* pending timeouts and handle the id setTimeout returned last, pc, password,
\* verifier and ret the login or setup call in flight and what the last one
\* returned.
NoAuth ==
    [state |-> NoSession, queue |-> <<>>, passive |-> "mount", listeners |-> FALSE,
     timeoutId |-> 0, timers |-> {}, handle |-> 0, pc |-> "idle", password |-> <<>>,
     verifier |-> Absent, ret |-> Pending]

\* No direct call of the crypto functions made yet. Each field is <<>> or <<v>>.
NoTrial == [sealed |-> <<>>, blob |-> <<>>, opened |-> <<>>, verified |-> <<>>, listed |-> <<>>]

GetItem(key) == localStorage[key]
Present(key) == Len(localStorage[key]) > 0

\* isAppInitialized
IsAppInitialized == localStorage[STORAGE_KEYS.IS_INITIALIZED] = <<"true">>

\* The state after the module is loaded, the clock reading t.
InitWith(t, called) ==
    /\ localStorage = [k \in {STORAGE_KEYS.PASSWORD_VERIFIER, STORAGE_KEYS.ENCRYPTED_DATA,
                              STORAGE_KEYS.IS_INITIALIZED} |-> Absent]
    /\ now = t
    /\ nextId = 1
    /\ pc = [p \in Procs |-> "idle"]
    /\ call = [p \in Procs |-> NoCall]
    /\ blobRead = [p \in Procs |-> Absent]
    /\ passwords = [p \in Procs |-> <<>>]
    /\ index = [p \in Procs |-> 0]
    /\ stale = [p \in Procs |-> FALSE]
    /\ last = NoOutcome
    /\ lastAdd = NoLastAdd
    /\ seals = {}
    /\ trial = NoTrial
    /\ tool = called
    /\ auth = NoAuth

InitAt(t) == InitWith(t, NoTool)

Init == InitAt(0)

\* ------------------------------------------------------------- helpers of the actions
\* The body of getPasswords once the slot has been read: [] for an absent slot,
\* else decrypt and JSON.parse, any failure rethrown as DecryptFailedError.
MutGetPasswords_Propagates(slot, pw) ==
    IF Len(slot) = 0 THEN RetList(<<>>)
    ELSE LET d == Decrypt(slot[1], pw)
         IN  IF ~d.ok THEN Throw(d.err)
             ELSE LET j == JSONParse(d.pt)
                  IN  IF j.ok THEN RetList(j.val) ELSE Throw(j.err)

MutGetPasswords_AbsentThrows(slot, pw) ==
    IF Len(slot) = 0 THEN Throw(DecryptFailedError)
    ELSE LET d == Decrypt(slot[1], pw)
         IN  IF ~d.ok THEN Throw(DecryptFailedError)
             ELSE LET j == JSONParse(d.pt)
                  IN  IF j.ok THEN RetList(j.val) ELSE Throw(DecryptFailedError)

MutGetPasswords_FailureIsEmpty(slot, pw) ==
    IF Len(slot) = 0 THEN RetList(<<>>)
    ELSE LET d == Decrypt(slot[1], pw)
         IN  IF ~d.ok THEN RetList(<<>>)
             ELSE LET j == JSONParse(d.pt)
                  IN  IF j.ok THEN RetList(j.val) ELSE RetList(<<>>)

GetPasswords(slot, pw) ==
    IF Len(slot) = 0 THEN RetList(<<>>)
    ELSE LET d == Decrypt(slot[1], pw)
         IN  IF ~d.ok THEN Throw(DecryptFailedError)
             ELSE LET j == JSONParse(d.pt)
                  IN  IF j.ok THEN RetList(j.val) ELSE Throw(DecryptFailedError)

\* passwords.findIndex((p) => p.id === id), 1-based, 0 when none matches.
FindIndex(list, id) ==
    IF \E i \in 1..Len(list) : list[i].id = id
    THEN CHOOSE i \in 1..Len(list) :
            list[i].id = id /\ \A j \in 1..(i - 1) : list[j].id # id
    ELSE 0

MutSplice_NoCount(list, i) == SubSeq(list, 1, i - 1)

\* passwords.splice(index, 1)
Splice(list, i) == [j \in 1..(Len(list) - 1) |-> IF j < i THEN list[j] ELSE list[j + 1]]

\* A call starts: its synchronous prefix has read `read` from localStorage (Absent
\* when it reads nothing) and the call is suspended at `at`.
Start(p, op, pw, id, fields, read, at) ==
    /\ pc[p] = "idle"
    /\ pc' = [pc EXCEPT ![p] = at]
    /\ call' = [call EXCEPT ![p] = [op |-> op, pw |-> pw, id |-> id, fields |-> fields]]
    /\ blobRead' = [blobRead EXCEPT ![p] = read]
    /\ passwords' = [passwords EXCEPT ![p] = <<>>]
    /\ index' = [index EXCEPT ![p] = 0]
    /\ stale' = [stale EXCEPT ![p] = FALSE]
    /\ last' = NoOutcome
    /\ UNCHANGED apart
    /\ UNCHANGED <<localStorage, now, nextId, lastAdd, seals>>

\* The history of seals once the blobs written in this step are counted in.
Sealed(blobs) == seals \cup {<<blobs[n].salt, blobs[n].iv>> : n \in 1..Len(blobs)}

\* The promise of call p settles with r and its frame is gone.
Finish(p, r) ==
    /\ pc' = [pc EXCEPT ![p] = "idle"]
    /\ call' = [call EXCEPT ![p] = NoCall]
    /\ blobRead' = [blobRead EXCEPT ![p] = Absent]
    /\ passwords' = [passwords EXCEPT ![p] = <<>>]
    /\ index' = [index EXCEPT ![p] = 0]
    /\ last' = Outcome(call[p], stale[p], localStorage[STORAGE_KEYS.ENCRYPTED_DATA], r)
    /\ UNCHANGED apart

\* A call settles without touching localStorage.
Settle(p, r) ==
    /\ Finish(p, r)
    /\ stale' = [stale EXCEPT ![p] = FALSE]
    /\ UNCHANGED <<localStorage, now, nextId, lastAdd, seals>>

\* Every other call in flight has now read a data slot that is out of date.
Outdate(p) == [q \in Procs |-> q # p /\ pc[q] # "idle"]

\* The entries of the data slot as it is now that `list` does not hold, after `list`.
Merged(list, pw) ==
    LET cur == GetPasswords(localStorage[STORAGE_KEYS.ENCRYPTED_DATA], pw).entries
        idsOf(l) == {l[j].id : j \in 1..Len(l)}
    IN  list \o SelectSeq(cur, LAMBDA e : e.id \notin idsOf(list))

MutSavePasswords_Rereads(p, salt, iv, r) ==
    /\ localStorage' = [localStorage EXCEPT ![STORAGE_KEYS.ENCRYPTED_DATA] =
            <<Encrypt(JSONStringify(Merged(passwords[p], call[p].pw)), call[p].pw, salt, iv)>>]
    /\ Finish(p, r)
    /\ stale' = Outdate(p)
    /\ seals' = Sealed(localStorage'[STORAGE_KEYS.ENCRYPTED_DATA])
    /\ UNCHANGED <<now, nextId>>

MutSavePasswords_SetsFlag(p, salt, iv, r) ==
    /\ localStorage' = [localStorage EXCEPT
            ![STORAGE_KEYS.ENCRYPTED_DATA] =
                <<Encrypt(JSONStringify(passwords[p]), call[p].pw, salt, iv)>>,
            ![STORAGE_KEYS.IS_INITIALIZED] = <<"true">>]
    /\ Finish(p, r)
    /\ stale' = Outdate(p)
    /\ seals' = Sealed(localStorage'[STORAGE_KEYS.ENCRYPTED_DATA])
    /\ UNCHANGED <<now, nextId>>

\* savePasswords once encrypt has resolved: localStorage.setItem(ENCRYPTED_DATA, ...),
\* after which the call settles with r.
SavePasswords(p, salt, iv, r) ==
    /\ localStorage' = [localStorage EXCEPT ![STORAGE_KEYS.ENCRYPTED_DATA] =
            <<Encrypt(JSONStringify(passwords[p]), call[p].pw, salt, iv)>>]
    /\ Finish(p, r)
    /\ stale' = Outdate(p)
    /\ seals' = Sealed(localStorage'[STORAGE_KEYS.ENCRYPTED_DATA])
    /\ UNCHANGED <<now, nextId>>

\* ------------------------------------------------------------- initializeApp
InitializeAppCall(p, pw) ==
    Start(p, "initializeApp", pw, 0, NoFields, Absent, "init_write")

\* Both encrypt calls have resolved: the three setItem calls run without an await
\* between them.
MutInitializeApp_NoData(p, s1, i1, s2, i2) ==
    /\ pc[p] = "init_write"
    /\ localStorage' =
          [localStorage EXCEPT
             ![STORAGE_KEYS.PASSWORD_VERIFIER] = <<CreatePasswordVerifier(call[p].pw, s1, i1)>>,
             ![STORAGE_KEYS.IS_INITIALIZED] = <<"true">>]
    /\ Finish(p, RetVoid)
    /\ stale' = Outdate(p)
    /\ lastAdd' = NoLastAdd
    /\ seals' = Sealed(localStorage'[STORAGE_KEYS.PASSWORD_VERIFIER])
    /\ UNCHANGED <<now, nextId>>

MutInitializeApp_VerifierOfList(p, s1, i1, s2, i2) ==
    /\ pc[p] = "init_write"
    /\ localStorage' =
          [localStorage EXCEPT
             ![STORAGE_KEYS.PASSWORD_VERIFIER] =
                 <<Encrypt(JSONStringify(<<>>), call[p].pw, s1, i1)>>,
             ![STORAGE_KEYS.ENCRYPTED_DATA] =
                 <<Encrypt(JSONStringify(<<>>), call[p].pw, s2, i2)>>,
             ![STORAGE_KEYS.IS_INITIALIZED] = <<"true">>]
    /\ Finish(p, RetVoid)
    /\ stale' = Outdate(p)
    /\ lastAdd' = NoLastAdd
    /\ seals' = Sealed(localStorage'[STORAGE_KEYS.PASSWORD_VERIFIER]
                            \o localStorage'[STORAGE_KEYS.ENCRYPTED_DATA])
    /\ UNCHANGED <<now, nextId>>

\* localStorage after the three setItem calls of initializeApp.
InitializedStore(pw, s1, i1, s2, i2) ==
    [localStorage EXCEPT
       ![STORAGE_KEYS.PASSWORD_VERIFIER] = <<CreatePasswordVerifier(pw, s1, i1)>>,
       ![STORAGE_KEYS.ENCRYPTED_DATA] = <<Encrypt(JSONStringify(<<>>), pw, s2, i2)>>,
       ![STORAGE_KEYS.IS_INITIALIZED] = <<"true">>]

InitializeApp(p, s1, i1, s2, i2) ==
    /\ pc[p] = "init_write"
    /\ localStorage' = InitializedStore(call[p].pw, s1, i1, s2, i2)
    /\ Finish(p, RetVoid)
    /\ stale' = Outdate(p)
    /\ lastAdd' = NoLastAdd
    /\ seals' = Sealed(localStorage'[STORAGE_KEYS.PASSWORD_VERIFIER]
                            \o localStorage'[STORAGE_KEYS.ENCRYPTED_DATA])
    /\ UNCHANGED <<now, nextId>>

\* ------------------------------------------------------------- validateMasterPassword
ValidateCall(p, pw) ==
    Start(p, "validateMasterPassword", pw, 0, NoFields,
          GetItem(STORAGE_KEYS.PASSWORD_VERIFIER), "validate_ret")

ValidateMasterPassword(slot, pw) ==
    IF Len(slot) = 0 THEN FALSE ELSE VerifyPassword(pw, slot[1])

ValidateRet(p) ==
    /\ pc[p] = "validate_ret"
    /\ Settle(p, RetBool(ValidateMasterPassword(blobRead[p], call[p].pw)))

\* ------------------------------------------------------------- getPasswords
GetPasswordsCall(p, pw) ==
    Start(p, "getPasswords", pw, 0, NoFields,
          GetItem(STORAGE_KEYS.ENCRYPTED_DATA), "get_ret")

GetPasswordsRet(p) ==
    /\ pc[p] = "get_ret"
    /\ Settle(p, GetPasswords(blobRead[p], call[p].pw))

\* ------------------------------------------------------------- addPassword
AddPasswordCall(p, pw, entry) ==
    /\ nextId + Cardinality({q \in Procs : pc[q] = "add_build"}) <= MaxIds
    /\ Start(p, "addPassword", pw, 0, entry,
             GetItem(STORAGE_KEYS.ENCRYPTED_DATA), "add_build")

\* { ...entry, id: crypto.randomUUID(), createdAt: t1, updatedAt: t2 }
MutNewEntry_FixedId(entry, id, t1, t2) ==
    [k \in DOMAIN entry \cup {"id", "createdAt", "updatedAt"} |->
        IF k = "id" THEN 1
        ELSE IF k = "createdAt" THEN ToISOString(t1)
        ELSE IF k = "updatedAt" THEN ToISOString(t2)
        ELSE entry[k]]

NewEntry(entry, id, t1, t2) ==
    [k \in DOMAIN entry \cup {"id", "createdAt", "updatedAt"} |->
        IF k = "id" THEN id
        ELSE IF k = "createdAt" THEN ToISOString(t1)
        ELSE IF k = "updatedAt" THEN ToISOString(t2)
        ELSE entry[k]]

\* getPasswords has resolved: build the entry with two reads of the clock, which
\* may have moved on between them, push it, and start savePasswords.
AddPasswordBuild(p) ==
    /\ pc[p] = "add_build"
    /\ LET r == GetPasswords(blobRead[p], call[p].pw)
       IN  IF r.kind = "throw"
           THEN Settle(p, r)
           ELSE \E d \in {0, 1} :
                  /\ now + d <= MaxTime
                  /\ passwords' = [passwords EXCEPT ![p] =
                        Append(r.entries, NewEntry(call[p].fields, nextId, now, now + d))]
                  /\ now' = now + d
                  /\ nextId' = nextId + 1
                  /\ pc' = [pc EXCEPT ![p] = "add_write"]
                  /\ last' = NoOutcome
                  /\ UNCHANGED apart
                  /\ UNCHANGED <<localStorage, call, blobRead, index, stale, lastAdd, seals>>

AddPasswordWrite(p, salt, iv) ==
    /\ pc[p] = "add_write"
    /\ SavePasswords(p, salt, iv, RetEntry(passwords[p][Len(passwords[p])]))
    /\ lastAdd' = IF stale[p] THEN NoLastAdd
                  ELSE [id |-> passwords[p][Len(passwords[p])].id,
                        before |-> SubSeq(passwords[p], 1, Len(passwords[p]) - 1)]

\* ------------------------------------------------------------- updatePassword
UpdatePasswordCall(p, pw, id, updates) ==
    Start(p, "updatePassword", pw, id, updates,
          GetItem(STORAGE_KEYS.ENCRYPTED_DATA), "upd_build")

MutUpdatePasswordBuild_Upserts(p) ==
    /\ pc[p] = "upd_build"
    /\ LET r == GetPasswords(blobRead[p], call[p].pw)
           i == FindIndex(r.entries, call[p].id)
       IN  IF r.kind = "throw" THEN Settle(p, r)
           ELSE /\ passwords' = [passwords EXCEPT ![p] =
                      IF i = 0
                      THEN Append(r.entries,
                                  Merge([id |-> call[p].id, createdAt |-> ToISOString(now)],
                                        call[p].fields, ToISOString(now)))
                      ELSE [r.entries EXCEPT ![i] =
                               Merge(@, call[p].fields, ToISOString(now))]]
                /\ index' = [index EXCEPT ![p] = IF i = 0 THEN Len(r.entries) + 1 ELSE i]
                /\ pc' = [pc EXCEPT ![p] = "upd_write"]
                /\ last' = NoOutcome
                /\ UNCHANGED apart
                /\ UNCHANGED <<localStorage, now, nextId, call, blobRead, stale, lastAdd, seals>>

UpdatePasswordBuild(p) ==
    /\ pc[p] = "upd_build"
    /\ LET r == GetPasswords(blobRead[p], call[p].pw)
           i == FindIndex(r.entries, call[p].id)
       IN  IF r.kind = "throw" THEN Settle(p, r)
           ELSE IF i = 0 THEN Settle(p, RetNull)
           ELSE /\ passwords' = [passwords EXCEPT ![p] =
                      [r.entries EXCEPT ![i] = Merge(@, call[p].fields, ToISOString(now))]]
                /\ index' = [index EXCEPT ![p] = i]
                /\ pc' = [pc EXCEPT ![p] = "upd_write"]
                /\ last' = NoOutcome
                /\ UNCHANGED apart
                /\ UNCHANGED <<localStorage, now, nextId, call, blobRead, stale, lastAdd, seals>>

UpdatePasswordWrite(p, salt, iv) ==
    /\ pc[p] = "upd_write"
    /\ SavePasswords(p, salt, iv, RetEntry(passwords[p][index[p]]))
    /\ lastAdd' = NoLastAdd

\* ------------------------------------------------------------- deletePassword
DeletePasswordCall(p, pw, id) ==
    Start(p, "deletePassword", pw, id, NoFields,
          GetItem(STORAGE_KEYS.ENCRYPTED_DATA), "del_build")

MutDeletePasswordBuild_Resaves(p) ==
    /\ pc[p] = "del_build"
    /\ LET r == GetPasswords(blobRead[p], call[p].pw)
           i == FindIndex(r.entries, call[p].id)
       IN  IF r.kind = "throw" THEN Settle(p, r)
           ELSE IF i = 0
           THEN \E salt \in Salts, iv \in IVs :
                   /\ localStorage' = [localStorage EXCEPT ![STORAGE_KEYS.ENCRYPTED_DATA] =
                          <<Encrypt(JSONStringify(r.entries), call[p].pw, salt, iv)>>]
                   /\ Finish(p, RetBool(FALSE))
                   /\ stale' = Outdate(p)
                   /\ seals' = Sealed(localStorage'[STORAGE_KEYS.ENCRYPTED_DATA])
                   /\ UNCHANGED <<now, nextId, lastAdd>>
           ELSE /\ passwords' = [passwords EXCEPT ![p] = Splice(r.entries, i)]
                /\ index' = [index EXCEPT ![p] = i]
                /\ pc' = [pc EXCEPT ![p] = "del_write"]
                /\ last' = NoOutcome
                /\ UNCHANGED apart
                /\ UNCHANGED <<localStorage, now, nextId, call, blobRead, stale, lastAdd, seals>>

DeletePasswordBuild(p) ==
    /\ pc[p] = "del_build"
    /\ LET r == GetPasswords(blobRead[p], call[p].pw)
           i == FindIndex(r.entries, call[p].id)
       IN  IF r.kind = "throw" THEN Settle(p, r)
           ELSE IF i = 0 THEN Settle(p, RetBool(FALSE))
           ELSE /\ passwords' = [passwords EXCEPT ![p] = Splice(r.entries, i)]
                /\ index' = [index EXCEPT ![p] = i]
                /\ pc' = [pc EXCEPT ![p] = "del_write"]
                /\ last' = NoOutcome
                /\ UNCHANGED apart
                /\ UNCHANGED <<localStorage, now, nextId, call, blobRead, stale, lastAdd, seals>>

DeletePasswordWrite(p, salt, iv) ==
    /\ pc[p] = "del_write"
    /\ SavePasswords(p, salt, iv, RetBool(TRUE))
    /\ lastAdd' = NoLastAdd

\* ------------------------------------------------------------- resetApp
\* Synchronous: the three removeItem calls run as one step.
MutResetApp_KeepsVerifier ==
    /\ localStorage' = [k \in DOMAIN localStorage |->
                           IF k = STORAGE_KEYS.PASSWORD_VERIFIER THEN localStorage[k] ELSE Absent]
    /\ stale' = [q \in Procs |-> pc[q] # "idle"]
    /\ lastAdd' = NoLastAdd
    /\ last' = Outcome([NoCall EXCEPT !.op = "resetApp"], FALSE,
                        localStorage[STORAGE_KEYS.ENCRYPTED_DATA], RetVoid)
    /\ UNCHANGED apart
    /\ UNCHANGED <<now, nextId, pc, call, locals, seals>>

MutResetApp_KeepsData ==
    /\ localStorage' = [k \in DOMAIN localStorage |->
                           IF k = STORAGE_KEYS.ENCRYPTED_DATA THEN localStorage[k] ELSE Absent]
    /\ stale' = [q \in Procs |-> pc[q] # "idle"]
    /\ lastAdd' = NoLastAdd
    /\ last' = Outcome([NoCall EXCEPT !.op = "resetApp"], FALSE,
                        localStorage[STORAGE_KEYS.ENCRYPTED_DATA], RetVoid)
    /\ UNCHANGED apart
    /\ UNCHANGED <<now, nextId, pc, call, locals, seals>>

ResetApp ==
    /\ localStorage' = [k \in DOMAIN localStorage |-> Absent]
    /\ stale' = [q \in Procs |-> pc[q] # "idle"]
    /\ lastAdd' = NoLastAdd
    /\ last' = Outcome([NoCall EXCEPT !.op = "resetApp"], FALSE,
                        localStorage[STORAGE_KEYS.ENCRYPTED_DATA], RetVoid)
    /\ UNCHANGED apart
    /\ UNCHANGED <<now, nextId, pc, call, locals, seals>>

\* ------------------------------------------------------------- the clock
Tick ==
    /\ now < MaxTime
    /\ now' = now + 1
    /\ last' = NoOutcome
    /\ UNCHANGED apart
    /\ UNCHANGED <<localStorage, nextId, pc, call, locals, stale, lastAdd, seals>>

\* ------------------------------------------------------------- specifications
Ids == 1..MaxIds

\* Every step of the calls in P, with passwords from PW and random bytes from S and I.
Steps(P, PW, S, I) ==
    \/ \E p \in P, pw \in PW : InitializeAppCall(p, pw)
    \/ \E p \in P, s1 \in S, i1 \in I, s2 \in S, i2 \in I : InitializeApp(p, s1, i1, s2, i2)
    \/ \E p \in P, pw \in PW : ValidateCall(p, pw)
    \/ \E p \in P : ValidateRet(p)
    \/ \E p \in P, pw \in PW : GetPasswordsCall(p, pw)
    \/ \E p \in P : GetPasswordsRet(p)
    \/ \E p \in P, pw \in PW, e \in NewEntries : AddPasswordCall(p, pw, e)
    \/ \E p \in P : AddPasswordBuild(p)
    \/ \E p \in P, s \in S, i \in I : AddPasswordWrite(p, s, i)
    \/ \E p \in P, pw \in PW, id \in Ids, u \in Updates : UpdatePasswordCall(p, pw, id, u)
    \/ \E p \in P : UpdatePasswordBuild(p)
    \/ \E p \in P, s \in S, i \in I : UpdatePasswordWrite(p, s, i)
    \/ \E p \in P, pw \in PW, id \in Ids : DeletePasswordCall(p, pw, id)
    \/ \E p \in P : DeletePasswordBuild(p)
    \/ \E p \in P, s \in S, i \in I : DeletePasswordWrite(p, s, i)
    \/ ResetApp

\* One call at a time (every caller awaits the call it made), the clock running;
\* every seal draws the same random bytes.
Next == Steps({"c1"}, Passwords, {"s1"}, IVs) \/ Tick

Spec == Init /\ [][Next]_vars

\* One call at a time, the random bytes varying from seal to seal, so that a blob
\* written again is told from the blob it replaces; the clock stands at its last
\* value.
FreshNext == Steps({"c1"}, Passwords, Salts, IVs)

SpecFresh == InitAt(MaxTime) /\ [][FreshNext]_vars

\* Calls that overlap: a second call may start while the first is suspended. All
\* calls pass the same password and draw the same random bytes, and the clock
\* stands at its last value, so that the interleavings themselves are explored.
RaceInit == InitAt(MaxTime)

RaceNext == Steps(Procs, {"p1"}, {"s1"}, IVs)

SpecRace == RaceInit /\ [][RaceNext]_vars

\* ------------------------------------------------------------- fresh random bytes
\* crypto.getRandomValues as a source that never repeats itself: the k-th value it
\* returns from now on, every blob sealed so far having taken two.
GetRandomValues(k) == ToString(2 * Cardinality(seals) + k)

\* MaxSeals blobs have not been sealed yet once n more are.
MaySeal(n) == Cardinality(seals) + n <= MaxSeals

\* One call at a time with one password, every salt and IV a value never drawn
\* before; the clock stands at its last value.
SealNext ==
    \/ \E pw \in {"p1"} : InitializeAppCall("c1", pw)
    \/ MaySeal(2) /\ InitializeApp("c1", GetRandomValues(0), GetRandomValues(1),
                                    GetRandomValues(2), GetRandomValues(3))
    \/ \E pw \in {"p1"}, e \in NewEntries : AddPasswordCall("c1", pw, e)
    \/ AddPasswordBuild("c1")
    \/ MaySeal(1) /\ AddPasswordWrite("c1", GetRandomValues(0), GetRandomValues(1))
    \/ \E pw \in {"p1"}, id \in Ids, u \in Updates : UpdatePasswordCall("c1", pw, id, u)
    \/ UpdatePasswordBuild("c1")
    \/ MaySeal(1) /\ UpdatePasswordWrite("c1", GetRandomValues(0), GetRandomValues(1))
    \/ \E pw \in {"p1"}, id \in Ids : DeletePasswordCall("c1", pw, id)
    \/ DeletePasswordBuild("c1")
    \/ MaySeal(1) /\ DeletePasswordWrite("c1", GetRandomValues(0), GetRandomValues(1))
    \/ ResetApp

SpecSeal == InitAt(MaxTime) /\ [][SealNext]_vars

\* ------------------------------------------------------------- tampering
\* Something outside the engine rewrites the data slot: one ciphertext byte is
\* flipped, so that the tag verifies under no key.
CorruptData ==
    /\ Present(STORAGE_KEYS.ENCRYPTED_DATA)
    /\ localStorage' = [localStorage EXCEPT ![STORAGE_KEYS.ENCRYPTED_DATA] =
            <<[@[1] EXCEPT !.ct.key = DeriveKey("", "")]>>]
    /\ stale' = [q \in Procs |-> pc[q] # "idle"]
    /\ lastAdd' = NoLastAdd
    /\ last' = NoOutcome
    /\ UNCHANGED apart
    /\ UNCHANGED <<now, nextId, pc, call, locals, seals>>

\* Something outside the engine copies the verifier slot into the data slot: a blob
\* that opens under the master password and holds text that is no JSON array.
PlantVerifier ==
    /\ Present(STORAGE_KEYS.PASSWORD_VERIFIER)
    /\ localStorage' = [localStorage EXCEPT ![STORAGE_KEYS.ENCRYPTED_DATA] =
            localStorage[STORAGE_KEYS.PASSWORD_VERIFIER]]
    /\ stale' = [q \in Procs |-> pc[q] # "idle"]
    /\ lastAdd' = NoLastAdd
    /\ last' = NoOutcome
    /\ UNCHANGED apart
    /\ UNCHANGED <<now, nextId, pc, call, locals, seals>>

\* One call at a time on a store that is tampered with; the clock stands still and
\* the random bytes are the same in every seal.
TamperNext == Steps({"c1"}, Passwords, {"s1"}, IVs) \/ CorruptData \/ PlantVerifier

SpecTamper == InitAt(MaxTime) /\ [][TamperNext]_vars

\* ------------------------------------------------------------- the crypto functions on their own
\* The vault is left alone while encrypt, decrypt, createPasswordVerifier and
\* verifyPassword are called directly.
vault == <<localStorage, now, nextId, pc, call, blobRead, passwords, index, stale, last, lastAdd,
           seals>>

Chars == {"a", BOM}

\* The strings handed to encrypt: every text of at most MaxText characters, and the
\* JSON text of the empty array.
Plaintexts ==
    {Text(cs) : cs \in UNION {[1..n -> Chars] : n \in 0..MaxText}} \cup {JSONStringify(<<>>)}

Sealing(plaintext, password, salt, iv) ==
    [NoTrial EXCEPT !.sealed = <<[pt |-> plaintext, pw |-> password, salt |-> salt, iv |-> iv]>>]

\* const blob = await encrypt(plaintext, password)
EncryptCall(plaintext, password, salt, iv) ==
    /\ trial' = [Sealing(plaintext, password, salt, iv)
                    EXCEPT !.blob = <<Encrypt(plaintext, password, salt, iv)>>]
    /\ UNCHANGED <<vault, tool, auth>>

\* const blob = await createPasswordVerifier(password)
CreatePasswordVerifierCall(password, salt, iv) ==
    /\ trial' = [Sealing(verificationString, password, salt, iv)
                    EXCEPT !.blob = <<CreatePasswordVerifier(password, salt, iv)>>]
    /\ UNCHANGED <<vault, tool, auth>>

\* The blob as encrypt returned it.
Original == LET c == trial.sealed[1] IN Encrypt(c.pt, c.pw, c.salt, c.iv)

\* The blob is altered before it is opened: one byte of the ciphertext is flipped
\* ("flip"), so that the tag verifies under no key, or one character of the text is
\* replaced by one outside the base64 alphabet ("garble").
AlterBlob(how) ==
    /\ trial.sealed # <<>>
    /\ trial.blob = <<Original>>
    /\ trial' = [Sealing(trial.sealed[1].pt, trial.sealed[1].pw,
                         trial.sealed[1].salt, trial.sealed[1].iv)
                    EXCEPT !.blob =
                    <<IF how = "flip" THEN [Original EXCEPT !.ct.key = DeriveKey("", "")]
                      ELSE [Original EXCEPT !.b64 = FALSE]>>]
    /\ UNCHANGED <<vault, tool, auth>>

\* How the promise of decrypt settled: with the string, or rejected with the error.
DecryptSettled(d) == IF d.ok THEN Settled("string", FALSE, <<d.pt>>, "") ELSE Throw(d.err)

\* await decrypt(blob, password)
DecryptCall(password) ==
    /\ trial.blob # <<>>
    /\ trial' = [trial EXCEPT !.opened =
                    <<[pw |-> password, ret |-> DecryptSettled(Decrypt(trial.blob[1], password))]>>]
    /\ UNCHANGED <<vault, tool, auth>>

\* await verifyPassword(password, blob)
VerifyPasswordCall(password) ==
    /\ trial.blob # <<>>
    /\ trial' = [trial EXCEPT !.verified =
                    <<[pw |-> password, ret |-> RetBool(VerifyPassword(password, trial.blob[1]))]>>]
    /\ UNCHANGED <<vault, tool, auth>>

\* await getPasswords(password) with the blob in the data slot
GetPasswordsOfBlob(password) ==
    /\ trial.blob # <<>>
    /\ trial' = [trial EXCEPT !.listed =
                    <<[pw |-> password, ret |-> GetPasswords(trial.blob, password)]>>]
    /\ UNCHANGED <<vault, tool, auth>>

CipherNext ==
    \/ \E pt \in Plaintexts, pw \in Passwords, s \in Salts, i \in IVs : EncryptCall(pt, pw, s, i)
    \/ \E pw \in Passwords, s \in Salts, i \in IVs : CreatePasswordVerifierCall(pw, s, i)
    \/ \E how \in {"flip", "garble"} : AlterBlob(how)
    \/ \E pw \in Passwords : DecryptCall(pw)
    \/ \E pw \in Passwords : VerifyPasswordCall(pw)
    \/ \E pw \in Passwords : GetPasswordsOfBlob(pw)

SpecCipher == Init /\ [][CipherNext]_vars

\* ------------------------------------------------------------- password generator and strength
\* A string is the sequence of its characters.
LOWERCASE ==
    <<"a", "b", "c", "d", "e", "f", "g", "h", "i", "j", "k", "l", "m">> \o
    <<"n", "o", "p", "q", "r", "s", "t", "u", "v", "w", "x", "y", "z">>
UPPERCASE ==
    <<"A", "B", "C", "D", "E", "F", "G", "H", "I", "J", "K", "L", "M">> \o
    <<"N", "O", "P", "Q", "R", "S", "T", "U", "V", "W", "X", "Y", "Z">>
NUMBERS == <<"0", "1", "2", "3", "4", "5", "6", "7", "8", "9">>
SYMBOLS ==
    <<"!", "@", "#", "$", "%", "^", "&", "*", "(", ")", "_", "+", "-">> \o
    <<"=", "[", "]", "{", "}", "|", ";", ":", ",", ".", "<", ">", "?">>

Range(f) == {f[x] : x \in DOMAIN f}

Max(a, b) == IF a >= b THEN a ELSE b
Min(a, b) == IF a <= b THEN a ELSE b

\* String.prototype.toLowerCase on the characters the model uses.
ToLowerCase(str) ==
    [n \in 1..Len(str) |->
        IF str[n] \in Range(UPPERCASE)
        THEN LOWERCASE[CHOOSE x \in 1..Len(UPPERCASE) : UPPERCASE[x] = str[n]]
        ELSE str[n]]

\* String.prototype.includes
Includes(str, pattern) ==
    \E n \in 0..(Len(str) - Len(pattern)) : SubSeq(str, n + 1, n + Len(pattern)) = pattern

\* /(.)\1{2,}/.test: some character three times in a row.
HasRepeat(str) == \E n \in 1..(Len(str) - 2) : str[n] = str[n + 1] /\ str[n + 1] = str[n + 2]

commonPatterns ==
    << <<"1", "2", "3">>, <<"a", "b", "c">>, <<"q", "w", "e", "r", "t", "y">>,
       <<"p", "a", "s", "s", "w", "o", "r", "d">>, <<"a", "d", "m", "i", "n">> >>

\* The score before it is brought into 0..100.
RawScore(password) ==
      (IF Len(password) >= 8 THEN 10 ELSE 0)
    + (IF Len(password) >= 12 THEN 15 ELSE 0)
    + (IF Len(password) >= 16 THEN 15 ELSE 0)
    + (IF Len(password) >= 20 THEN 10 ELSE 0)
    + (IF Range(password) \cap Range(LOWERCASE) # {} THEN 10 ELSE 0)
    + (IF Range(password) \cap Range(UPPERCASE) # {} THEN 10 ELSE 0)
    + (IF Range(password) \cap Range(NUMBERS) # {} THEN 10 ELSE 0)
    + (IF Range(password) \cap Range(SYMBOLS) # {} THEN 15 ELSE 0)
    - (IF HasRepeat(password) THEN 10 ELSE 0)
    - (IF \E n \in 1..Len(commonPatterns) : Includes(ToLowerCase(password), commonPatterns[n])
       THEN 15 ELSE 0)

MutNormalize_NoFloor(score) == Min(100, score)

\* Math.max(0, Math.min(100, score))
Normalize(score) == Max(0, Min(100, score))

Level(score) ==
    IF score < 30 THEN "weak"
    ELSE IF score < 50 THEN "fair"
    ELSE IF score < 75 THEN "good"
    ELSE "strong"

\* The feedback messages, each named by what it says, in the order they are pushed.
Feedback(password, level) ==
    LET If(c, msg) == IF c THEN <<msg>> ELSE <<>>
        hints ==
            If(Range(password) \cap Range(LOWERCASE) = {}, "add lowercase")
         \o If(Range(password) \cap Range(UPPERCASE) = {}, "add uppercase")
         \o If(Range(password) \cap Range(NUMBERS) = {}, "add numbers")
         \o If(Range(password) \cap Range(SYMBOLS) = {}, "add symbols")
         \o If(HasRepeat(password), "avoid repeated characters")
         \o If(\E n \in 1..Len(commonPatterns) :
                  Includes(ToLowerCase(password), commonPatterns[n]), "avoid common patterns")
    IN  IF level = "weak" THEN If(Len(password) < 8, "too short") \o hints
        ELSE IF level = "strong" /\ hints = <<>> THEN <<"strong password">>
        ELSE hints

EvaluatePasswordStrength(password) ==
    LET score == Normalize(RawScore(password))
    IN  [score |-> score, level |-> Level(score), feedback |-> Feedback(password, Level(score))]

\* The characters of the passwords evaluated: letters, a digit, a symbol, and two
\* characters of no class, a space and a tilde.
HeadChars == {"a", "b", "c", "C", "1", "!"}

\* k characters of no class, no three alike in a row.
Tail_(k) == [n \in 1..k |-> IF n % 2 = 1 THEN " " ELSE "~"]

\* The passwords evaluated: every head of at most MaxHead characters, alone or
\* brought to a length around one of the thresholds.
EvaluatedPasswords ==
    {h \o Tail_(k) : h \in UNION {[1..n -> HeadChars] : n \in 0..MaxHead},
                     k \in {0, 5, 9, 13, 17}}

\* const strength = evaluatePasswordStrength(password)
EvaluatePasswordStrengthCall ==
    /\ tool.fn = "evaluatePasswordStrength"
    /\ tool.ret = Pending
    /\ tool' = [tool EXCEPT !.ret = EvaluatePasswordStrength(tool.password[1])]
    /\ UNCHANGED <<vault, trial, auth>>

\* The four classes in the order generatePassword visits them.
Classes ==
    << [include |-> "includeLowercase", chars |-> LOWERCASE],
       [include |-> "includeUppercase", chars |-> UPPERCASE],
       [include |-> "includeNumbers", chars |-> NUMBERS],
       [include |-> "includeSymbols", chars |-> SYMBOLS] >>

Included(options) == SelectSeq(Classes, LAMBDA class : options[class.include])

RECURSIVE Concat(_)
Concat(strs) == IF strs = <<>> THEN <<>> ELSE Head(strs) \o Concat(Tail(strs))

\* charset after the four tests.
Charset(options) == Concat([n \in 1..Len(Included(options)) |-> Included(options)[n].chars])

\* Math.random() is r tenths: CLASS[Math.floor(Math.random() * CLASS.length)], one
\* draw for every enabled class.
RequiredChars(options, math) ==
    [n \in 1..Len(Included(options)) |->
        Included(options)[n].chars[((math[n] * Len(Included(options)[n].chars)) \div 10) + 1]]

PolicyError == "Error: select at least one character class"
QuotaExceededError == "QuotaExceededError"

\* crypto.getRandomValues refuses an array of more than 65536 bytes; an element of
\* a Uint32Array is 4 bytes.
QuotaExceeded(count) == count * 4 > 65536

MutThrownBy_QuotaFirst(charset, randomCount, shuffleCount) ==
    IF QuotaExceeded(randomCount) \/ QuotaExceeded(shuffleCount) THEN QuotaExceededError
    ELSE IF Len(charset) = 0 THEN PolicyError
    ELSE ""

\* What generatePassword throws, "" when it returns: the test of the charset comes
\* before either array is filled.
ThrownBy(charset, randomCount, shuffleCount) ==
    IF Len(charset) = 0 THEN PolicyError
    ELSE IF QuotaExceeded(randomCount) \/ QuotaExceeded(shuffleCount) THEN QuotaExceededError
    ELSE ""

\* passwordChars before the shuffle.
PasswordChars(options, random) ==
    LET charset == Charset(options)
        requiredChars == RequiredChars(options, random.math)
        effectiveLength == Max(options.length, Len(requiredChars))
    IN  requiredChars \o
        [n \in 1..(effectiveLength - Len(requiredChars)) |->
            charset[(random.values[n] % Len(charset)) + 1]]

\* j = shuffleValues[i] % (i + 1), i and j counted from 0.
SwapIndex(shuffleValues, i) == shuffleValues[i + 1] % (i + 1)

MutSwap_Copies(array, i, j) == [array EXCEPT ![i + 1] = array[j + 1]]

\* [array[i], array[j]] = [array[j], array[i]]
Swap(array, i, j) == [array EXCEPT ![i + 1] = array[j + 1], ![j + 1] = array[i + 1]]

\* for (let i = ...; i > 0; i--) from i on.
RECURSIVE Shuffle(_, _, _)
Shuffle(array, shuffleValues, i) ==
    IF i > 0
    THEN Shuffle(Swap(array, i, SwapIndex(shuffleValues, i)), shuffleValues, i - 1)
    ELSE array

RetString(str) == Settled("string", FALSE, str, "")

\* generatePassword(options), its random draws given: the characters before the
\* shuffle and the outcome.
GeneratePassword(options, random) ==
    LET charset == Charset(options)
        required == Len(Included(options))
        effectiveLength == Max(options.length, required)
        thrown == ThrownBy(charset, effectiveLength - required, effectiveLength)
        passwordChars == PasswordChars(options, random)
    IN  IF thrown # ""
        THEN [chars |-> <<>>, ret |-> Throw(thrown)]
        ELSE [chars |-> passwordChars,
              ret |-> RetString(Shuffle(passwordChars, random.shuffle, Len(passwordChars) - 1))]

\* const newPassword = generatePassword(options)
GeneratePasswordCall ==
    /\ tool.fn = "generatePassword"
    /\ tool.ret = Pending
    /\ tool' = [tool EXCEPT !.chars = GeneratePassword(tool.options[1], tool.random).chars,
                            !.ret = GeneratePassword(tool.options[1], tool.random).ret]
    /\ UNCHANGED <<vault, trial, auth>>

\* The lengths asked for: up to MaxLength, and one more than the largest array
\* crypto.getRandomValues fills.
Lengths == (0..MaxLength) \cup {(65536 \div 4) + 1}

Options ==
    [length : Lengths, includeLowercase : BOOLEAN, includeUppercase : BOOLEAN,
     includeNumbers : BOOLEAN, includeSymbols : BOOLEAN]

\* Math.random() in tenths, and elements of a filled Uint32Array.
MathRandoms == {0, 9}
Uint32s == {0, 7, 2147483646}

\* The draws a call with these options consumes.
Randoms(options) ==
    LET required == Len(Included(options))
        effectiveLength == Max(options.length, required)
        filled == ThrownBy(Charset(options), effectiveLength - required, effectiveLength) = ""
    IN  [math : [1..required -> MathRandoms],
         values : [1..(IF filled THEN effectiveLength - required ELSE 0) -> Uint32s],
         shuffle : [1..(IF filled THEN effectiveLength ELSE 0) -> Uint32s]]

\* The call about to be made: its function, its arguments and its random draws.
ToolInit ==
    \/ \E password \in EvaluatedPasswords :
           InitWith(0, [NoTool EXCEPT !.fn = "evaluatePasswordStrength",
                                      !.password = <<password>>])
    \/ \E options \in Options : \E random \in Randoms(options) :
           InitWith(0, [NoTool EXCEPT !.fn = "generatePassword", !.options = <<options>>,
                                      !.random = random])

ToolNext == EvaluatePasswordStrengthCall \/ GeneratePasswordCall

SpecTool == ToolInit /\ [][ToolNext]_vars

\* ------------------------------------------------------------- AuthProvider
\* The parts of the state a step of the session leaves alone.
offstage == <<now, nextId, pc, call, blobRead, passwords, index, stale, last, lastAdd, trial, tool>>

\* The state the next render commits: React applies the queued updates in order and
\* every setter is called with a value.
Queued == IF auth.queue = <<>> THEN auth.state ELSE auth.queue[1]

\* setMasterPassword(password); setIsAuthenticated(true)
SetAuthenticated(session, password) ==
    [session EXCEPT !.masterPassword = <<password>>, !.isAuthenticated = TRUE]

MutSetLoggedOut_KeepsPassword(session) == [session EXCEPT !.isAuthenticated = FALSE]

\* setMasterPassword(null); setIsAuthenticated(false)
SetLoggedOut(session) == [session EXCEPT !.masterPassword = <<>>, !.isAuthenticated = FALSE]

\* login(password) up to its await: validateMasterPassword reads the verifier slot.
LoginCall(password) ==
    /\ auth.pc = "idle"
    /\ auth' = [auth EXCEPT !.pc = "login", !.password = <<password>>,
                            !.verifier = GetItem(STORAGE_KEYS.PASSWORD_VERIFIER),
                            !.ret = Pending]
    /\ UNCHANGED <<localStorage, seals, offstage>>

\* validateMasterPassword has resolved; it never rejects, so the catch of login is
\* not entered. handleLogin, when it is the caller, clears isLoading of the screen
\* in the same batch.
LoginDone ==
    /\ auth.pc = "login"
    /\ LET isValid == ValidateMasterPassword(auth.verifier, auth.password[1])
           done == [Queued EXCEPT !.submitting = FALSE]
       IN  auth' = [auth EXCEPT
                      !.pc = "idle", !.password = <<>>, !.verifier = Absent,
                      !.ret = RetBool(isValid),
                      !.queue = IF isValid THEN <<SetAuthenticated(done, auth.password[1])>>
                                ELSE IF done = auth.state THEN <<>>
                                ELSE <<done>>]
    /\ UNCHANGED <<localStorage, seals, offstage>>

\* logout()
Logout ==
    /\ auth' = [auth EXCEPT !.queue = <<SetLoggedOut(Queued)>>]
    /\ UNCHANGED <<localStorage, seals, offstage>>

\* setup(password) up to the await of initializeApp.
SetupCall(password) ==
    /\ auth.pc = "idle"
    /\ auth' = [auth EXCEPT !.pc = "setup", !.password = <<password>>, !.ret = Pending]
    /\ UNCHANGED <<localStorage, seals, offstage>>

\* initializeApp writes its three slots and resolves; setup sets its three pieces
\* of state.
SetupDone(s1, i1, s2, i2) ==
    /\ auth.pc = "setup"
    /\ localStorage' = InitializedStore(auth.password[1], s1, i1, s2, i2)
    /\ seals' = Sealed(localStorage'[STORAGE_KEYS.PASSWORD_VERIFIER]
                            \o localStorage'[STORAGE_KEYS.ENCRYPTED_DATA])
    /\ auth' = [auth EXCEPT
                  !.pc = "idle", !.password = <<>>, !.ret = RetVoid,
                  !.queue = <<[SetAuthenticated(Queued, auth.password[1])
                                 EXCEPT !.isInitialized = TRUE, !.submitting = FALSE]>>]
    /\ UNCHANGED offstage

\* React renders and commits the queued state; the effects of the render before
\* have run by then. The idle effect is to run again when isAuthenticated changed.
Render ==
    /\ auth.queue # <<>>
    /\ auth.passive = "none"
    /\ auth' = [auth EXCEPT
                  !.state = auth.queue[1], !.queue = <<>>,
                  !.passive = IF auth.queue[1].isAuthenticated # auth.state.isAuthenticated
                              THEN "auth" ELSE "none"]
    /\ UNCHANGED <<localStorage, seals, offstage>>

TimerIds == 1..MaxTimers

\* The id the next setTimeout returns: one after the last, and none still held.
SetTimeout == (auth.handle % MaxTimers) + 1

MutClearTimeout_Noop(timers, timeoutId) == timers

\* clearTimeout(timeoutId)
ClearTimeout(timers, timeoutId) == timers \ {timeoutId}

\* The effects of the last commit run. After the first render: checkInitialization,
\* and the idle effect returns at once. After isAuthenticated changed: the cleanup
\* of the idle effect set up before, then the effect itself, which, authenticated,
\* adds the listeners and calls resetTimer.
RunEffects ==
    /\ auth.passive # "none"
    /\ \/ /\ auth.passive = "mount"
          /\ auth' = [auth EXCEPT
                        !.passive = "none",
                        !.queue = <<[Queued EXCEPT !.isInitialized = IsAppInitialized,
                                                   !.isLoading = FALSE]>>]
       \/ /\ auth.passive = "auth"
          /\ ~auth.state.isAuthenticated
          /\ auth' = [auth EXCEPT
                        !.passive = "none", !.listeners = FALSE, !.timeoutId = 0,
                        !.timers = IF auth.listeners
                                   THEN ClearTimeout(auth.timers, auth.timeoutId)
                                   ELSE auth.timers]
       \/ /\ auth.passive = "auth"
          /\ auth.state.isAuthenticated
          /\ SetTimeout \notin auth.timers \cup {auth.timeoutId}
          /\ LET id == SetTimeout
             IN auth' = [auth EXCEPT
                           !.passive = "none", !.listeners = TRUE, !.timeoutId = id,
                           !.handle = id,
                           !.timers = (IF auth.listeners
                                       THEN ClearTimeout(auth.timers, auth.timeoutId)
                                       ELSE auth.timers) \cup {id}]
    /\ UNCHANGED <<localStorage, seals, offstage>>

\* A mousedown, keydown, touchstart or scroll event while the listeners are on the
\* window: resetTimer.
UserEvent ==
    /\ auth.listeners
    /\ SetTimeout \notin auth.timers \cup {auth.timeoutId}
    /\ LET id == SetTimeout
       IN  auth' = [auth EXCEPT !.timeoutId = id, !.handle = id,
                               !.timers = ClearTimeout(auth.timers, auth.timeoutId) \cup {id}]
    /\ UNCHANGED <<localStorage, seals, offstage>>

\* A pending timeout comes due: its callback calls logout().
TimerFires(id) ==
    /\ id \in auth.timers
    /\ auth' = [auth EXCEPT !.timers = auth.timers \ {id},
                            !.queue = <<SetLoggedOut(Queued)>>]
    /\ UNCHANGED <<localStorage, seals, offstage>>

\* What runs by itself once a call is made or a timer is set.
Scheduled ==
    \/ LoginDone
    \/ \E s1 \in {"s1"}, s2 \in {"s2"}, i \in IVs : SetupDone(s1, i, s2, i)
    \/ Render
    \/ RunEffects
    \/ UserEvent
    \/ \E id \in TimerIds : TimerFires(id)

\* The session driven through useAuth() by any consumer.
SessionNext ==
    \/ \E password \in Passwords : LoginCall(password)
    \/ \E password \in Passwords : SetupCall(password)
    \/ Logout
    \/ Scheduled

SpecSession == Init /\ [][SessionNext]_vars

\* Home shows LoginScreen when the session is not authenticated, PasswordList when
\* it is, and neither while isLoading.
LoginScreenShown == ~auth.state.isLoading /\ ~auth.state.isAuthenticated
PasswordListShown == ~auth.state.isLoading /\ auth.state.isAuthenticated

\* handleLogin or handleSetup starts: setIsLoading(true) of the screen is rendered
\* within the submit event.
Submitting ==
    [auth EXCEPT !.state.submitting = TRUE,
                 !.queue = IF auth.queue = <<>> THEN <<>>
                           ELSE <<[auth.queue[1] EXCEPT !.submitting = TRUE]>>]

\* The login form is submitted: the form LoginScreen shows once the app is
\* initialized, its button disabled while a submission is in progress.
SubmitLogin(password) ==
    /\ LoginScreenShown
    /\ auth.state.isInitialized
    /\ ~auth.state.submitting
    /\ auth.pc = "idle"
    /\ auth' = [Submitting EXCEPT !.pc = "login", !.password = <<password>>,
                                  !.verifier = GetItem(STORAGE_KEYS.PASSWORD_VERIFIER),
                                  !.ret = Pending]
    /\ UNCHANGED <<localStorage, seals, offstage>>

\* The setup form is submitted: the form LoginScreen shows before the app is
\* initialized.
SubmitSetup(password) ==
    /\ LoginScreenShown
    /\ ~auth.state.isInitialized
    /\ ~auth.state.submitting
    /\ auth.pc = "idle"
    /\ auth' = [Submitting EXCEPT !.pc = "setup", !.password = <<password>>, !.ret = Pending]
    /\ UNCHANGED <<localStorage, seals, offstage>>

\* The logout button of PasswordList.
ClickLogout == PasswordListShown /\ Logout

\* The page is loaded again: AuthProvider starts over, the timeouts and promises of
\* the page before are gone, localStorage stays.
Reload ==
    /\ auth' = [NoAuth EXCEPT !.handle = auth.handle]
    /\ UNCHANGED <<localStorage, seals, offstage>>

\* The session driven by the screens of the app.
AppNext ==
    \/ \E password \in Passwords : SubmitLogin(password)
    \/ \E password \in Passwords : SubmitSetup(password)
    \/ ClickLogout
    \/ Reload
    \/ Scheduled

SpecApp == Init /\ [][AppNext]_vars

\* ------------------------------------------------------------- notation of the properties
DataSlot == localStorage[STORAGE_KEYS.ENCRYPTED_DATA]

\* The collection a slot value decodes to under pw (empty when it does not).
Entries(slot, pw) == GetPasswords(slot, pw).entries

\* The collection call p read, as getPasswords returned it.
ReadBy(p) == Entries(blobRead[p], call[p].pw)

IdsOf(list) == {list[j].id : j \in 1..Len(list)}

\* Call p takes its last step.
Settles(p, at) == pc[p] = at /\ pc'[p] = "idle"

\* ------------------------------------------------------------- C1
\* C1: initialize(password) on a vault whose initialized flag is already true fails
\* and leaves the verifier, data and initialized slots unchanged.
C1_InitializeRefusesInitialized ==
    [][\A p \in Procs :
          (Settles(p, "init_write") /\ IsAppInitialized)
             => (last'.ret.kind = "throw" /\ localStorage' = localStorage)]_vars

\* ------------------------------------------------------------- C2
\* C2: in every reachable state, under any interleaving of the calls and reset,
\* initialized = true implies that the verifier slot and the data slot are present.
C2_InitializedImpliesSlots ==
    IsAppInitialized =>
        Present(STORAGE_KEYS.PASSWORD_VERIFIER) /\ Present(STORAGE_KEYS.ENCRYPTED_DATA)

\* An initialized vault while one call is suspended on a data slot that another
\* call has rewritten since.
C2_Witness ==
    /\ IsAppInitialized
    /\ \E p \in Procs : pc[p] \in {"add_write", "upd_write", "del_write"} /\ stale[p]
    /\ \E q \in Procs : pc[q] = "init_write"

\* ------------------------------------------------------------- C3
\* C3: mutations are not serialized. What a mutating call writes is computed from
\* the collection it read alone: the ids it leaves in the data slot are the ids it
\* read, plus the one it created or minus the one it deleted, whatever other calls
\* wrote to the slot in between, so an entry written in between is lost.
C3_LaterWriteWins ==
    [][\A p \in Procs :
          LET after == Entries(DataSlot', call[p].pw)
              read == ReadBy(p)
          IN  /\ Settles(p, "add_write") =>
                    /\ Len(after) = Len(read) + 1
                    /\ IdsOf(after) = IdsOf(read) \cup {last'.ret.entries[1].id}
              /\ Settles(p, "upd_write") =>
                    /\ Len(after) = Len(read)
                    /\ IdsOf(after) = IdsOf(read)
              /\ Settles(p, "del_write") =>
                    /\ Len(after) = Len(read) - 1
                    /\ IdsOf(after) = IdsOf(read) \ {call[p].id}]_vars

\* Two creates raced on a collection of n entries: the second write found n + 1
\* entries in the slot, the last of them new, and left n + 1 entries without it.
C3_Witness ==
    /\ last.call.op = "addPassword"
    /\ last.ret.kind = "entry"
    /\ last.raced
    /\ LET before == Entries(last.before, last.call.pw)
           after == Entries(DataSlot, last.call.pw)
       IN  /\ Len(before) = Len(after)
           /\ Len(before) > 0
           /\ before[Len(before)].id \notin IdsOf(after)
           /\ SubSeq(before, 1, Len(before) - 1) = SubSeq(after, 1, Len(after) - 1)

\* ------------------------------------------------------------- C4
\* C4: for every create call, the returned entry and the entry stored for it have
\* createdAt equal to updatedAt, even if the clock advances during the call.
C4_CreatedEqualsUpdated ==
    (last.call.op = "addPassword" /\ last.ret.kind = "entry") =>
        LET e == last.ret.entries[1]
            stored == Entries(DataSlot, last.call.pw)
        IN  /\ e.createdAt = e.updatedAt
            /\ \A j \in 1..Len(stored) :
                  stored[j].id = e.id => stored[j].createdAt = stored[j].updatedAt

\* ------------------------------------------------------------- C5
\* C5: update on an existing id keeps that entry's id and createdAt, keeps every
\* field not named in partialFields, keeps the entry's position, and leaves every
\* other entry unchanged (with respect to the collection the call read, which is
\* the stored one unless another write came in between).
C5_UpdateFrame ==
    [][\A p \in Procs :
          Settles(p, "upd_write") =>
             LET after == Entries(DataSlot', call[p].pw)
                 read == ReadBy(p)
                 i == FindIndex(read, call[p].id)
             IN  /\ i > 0
                 /\ ~stale[p] => DataSlot = blobRead[p]
                 /\ Len(after) = Len(read)
                 /\ \A j \in 1..Len(read) : j # i => after[j] = read[j]
                 /\ after[i].id = call[p].id
                 /\ after[i].createdAt = read[i].createdAt
                 /\ \A k \in DOMAIN read[i] \ (DOMAIN call[p].fields \cup {"updatedAt"}) :
                       k \in DOMAIN after[i] /\ after[i][k] = read[i][k]
                 /\ last'.ret.kind = "entry"
                 /\ last'.ret.entries[1].id = call[p].id]_vars

\* An update of the first of two entries has just settled: its updatedAt moved on,
\* its createdAt did not, and the second entry is as it was.
C5_Witness ==
    /\ last.call.op = "updatePassword"
    /\ last.ret.kind = "entry"
    /\ ~last.raced
    /\ LET before == Entries(last.before, last.call.pw)
           after == Entries(DataSlot, last.call.pw)
       IN  /\ Len(after) = 2
           /\ after[1].id = last.call.id
           /\ after[1].updatedAt # after[1].createdAt
           /\ after[1].password # before[1].password
           /\ after[1].serviceName = before[1].serviceName
           /\ after[2] = before[2]

\* ------------------------------------------------------------- C6
\* C6: delete with an id that is not in the collection returns false and performs
\* no write: no step of the call changes any of the three slots.
C6_DeleteMissingNoWrite ==
    [][\A p \in Procs :
          /\ (pc[p] = "idle" /\ pc'[p] = "del_build") => localStorage' = localStorage
          /\ (pc[p] = "del_build" /\ pc'[p] # "del_build"
                /\ GetPasswords(blobRead[p], call[p].pw).kind = "list"
                /\ call[p].id \notin IdsOf(ReadBy(p)))
               => /\ pc'[p] = "idle"
                  /\ last'.ret = RetBool(FALSE)
                  /\ localStorage' = localStorage]_vars

\* A delete of an id that a non-empty collection does not hold has just returned false.
C6_Witness ==
    /\ last.call.op = "deletePassword"
    /\ last.ret = RetBool(FALSE)
    /\ Len(Entries(DataSlot, last.call.pw)) > 0
    /\ last.before = DataSlot

\* ------------------------------------------------------------- C7
\* C7: update with an id that is not in the collection returns null and performs
\* no write to any slot.
C7_UpdateMissingNoWrite ==
    [][\A p \in Procs :
          /\ (pc[p] = "idle" /\ pc'[p] = "upd_build") => localStorage' = localStorage
          /\ (pc[p] = "upd_build" /\ pc'[p] # "upd_build"
                /\ GetPasswords(blobRead[p], call[p].pw).kind = "list"
                /\ call[p].id \notin IdsOf(ReadBy(p)))
               => /\ pc'[p] = "idle"
                  /\ last'.ret = RetNull
                  /\ localStorage' = localStorage]_vars

\* An update of an id that a non-empty collection does not hold has just returned null.
C7_Witness ==
    /\ last.call.op = "updatePassword"
    /\ last.ret = RetNull
    /\ Len(Entries(DataSlot, last.call.pw)) > 0
    /\ last.before = DataSlot

\* ------------------------------------------------------------- C8
\* C8: delete on an existing id returns true and leaves exactly the collection it
\* read without the entry of that id, the others unchanged and in the same order;
\* a create followed by the delete of the created id restores the collection the
\* create found.
C8_DeleteFrame ==
    [][\A p \in Procs :
          Settles(p, "del_write") =>
             LET after == Entries(DataSlot', call[p].pw)
                 read == ReadBy(p)
                 i == FindIndex(read, call[p].id)
             IN  /\ i > 0
                 /\ last'.ret = RetBool(TRUE)
                 /\ ~stale[p] => DataSlot = blobRead[p]
                 /\ Len(after) = Len(read) - 1
                 /\ \A j \in 1..Len(after) : after[j] = IF j < i THEN read[j] ELSE read[j + 1]
                 /\ call[p].id \notin IdsOf(after)
                 /\ (~stale[p] /\ lastAdd.id = call[p].id) => after = lastAdd.before]_vars

\* The first of two entries has just been deleted; the second is what remains.
C8_Witness ==
    /\ last.call.op = "deletePassword"
    /\ last.ret = RetBool(TRUE)
    /\ ~last.raced
    /\ LET before == Entries(last.before, last.call.pw)
           after == Entries(DataSlot, last.call.pw)
       IN  /\ Len(before) = 2
           /\ before[1].id = last.call.id
           /\ after = <<before[2]>>

\* ------------------------------------------------------------- C9
\* C9 (as claimed): list propagates failures unmodified: a failure to open the blob
\* reaches the caller as the cipher's error, a failure to decode as the parser's.
C9_ListPropagatesUnmodified ==
    [][\A p \in Procs :
          (Settles(p, "get_ret") /\ Len(blobRead[p]) > 0) =>
             LET d == Decrypt(blobRead[p][1], call[p].pw)
             IN  /\ ~d.ok => last'.ret = Throw(d.err)
                 /\ (d.ok /\ ~JSONParse(d.pt).ok) => last'.ret = Throw(JSONParse(d.pt).err)]_vars

\* C9 (amended): list fails exactly when opening the blob fails or the opened text
\* does not parse, and in both cases the caller receives the same new error, the
\* one getPasswords throws in place of whatever was caught.
C9_ListWrapsFailures ==
    [][\A p \in Procs :
          (Settles(p, "get_ret") /\ Len(blobRead[p]) > 0) =>
             LET d == Decrypt(blobRead[p][1], call[p].pw)
             IN  IF d.ok /\ JSONParse(d.pt).ok
                 THEN last'.ret = RetList(JSONParse(d.pt).val)
                 ELSE last'.ret = Throw(DecryptFailedError)]_vars

\* A list call has just failed on a blob that opens under its password and holds
\* text that does not parse.
C9_Witness ==
    /\ last.call.op = "getPasswords"
    /\ last.ret.kind = "throw"
    /\ Present(STORAGE_KEYS.ENCRYPTED_DATA)
    /\ last.before = DataSlot
    /\ Decrypt(DataSlot[1], last.call.pw).ok
    /\ ~JSONParse(Decrypt(DataSlot[1], last.call.pw).pt).ok

\* ------------------------------------------------------------- C10
\* C10: list returns the empty collection, without raising and for any password,
\* whenever the data slot is absent when the call reads it.
C10_ListOfAbsentIsEmpty ==
    [][\A p \in Procs :
          (Settles(p, "get_ret") /\ Len(blobRead[p]) = 0) => last'.ret = RetList(<<>>)]_vars

\* After a reset of a vault that held entries, a list call has just returned the
\* empty collection.
C10_Witness ==
    /\ last.call.op = "getPasswords"
    /\ last.ret = RetList(<<>>)
    /\ ~Present(STORAGE_KEYS.ENCRYPTED_DATA)
    /\ ~IsAppInitialized
    /\ nextId > 1

\* ------------------------------------------------------------- C11
\* C11: verifyPassword(password, record) never raises and returns true if and only
\* if decrypt(record, password) succeeds and the recovered plaintext is the
\* sentinel; hence on a record that createPasswordVerifier(k) returned it is true
\* for k and false for every other password.
C11_VerifyIffSentinel ==
    trial.verified # <<>> =>
        LET v == trial.verified[1]
            c == trial.sealed[1]
            d == Decrypt(trial.blob[1], v.pw)
        IN  /\ v.ret.kind = "bool"
            /\ v.ret.bool = (d.ok /\ d.pt = verificationString)
            /\ (c.pt = verificationString /\ trial.blob = <<Original>>)
                  => v.ret.bool = (v.pw = c.pw)

\* A record made for one password has been verified with that password: true.
C11_Witness ==
    /\ trial.verified # <<>>
    /\ trial.sealed[1].pt = verificationString
    /\ trial.blob = <<Original>>
    /\ trial.verified[1].pw = trial.sealed[1].pw
    /\ trial.verified[1].ret = RetBool(TRUE)

\* ------------------------------------------------------------- C12
\* C12: validateMasterPassword(password) returns false and does not raise, for
\* every password, whenever the vault is not initialized (flag not set), also
\* after a reset: a call made then reads no verifier, a call that read none
\* returns false, and so does every call during which the vault was never
\* initialized.
C12_AuthenticateUninitializedFalse ==
    [][\A p \in Procs :
          /\ (pc[p] = "idle" /\ pc'[p] = "validate_ret" /\ ~IsAppInitialized)
                => blobRead'[p] = Absent
          /\ (Settles(p, "validate_ret") /\ blobRead[p] = Absent)
                => last'.ret = RetBool(FALSE)
          /\ (Settles(p, "validate_ret") /\ ~stale[p] /\ ~IsAppInitialized)
                => last'.ret = RetBool(FALSE)]_vars

\* After a vault that held an entry was reset, a validateMasterPassword call made
\* and finished on the uninitialized vault has returned false.
C12_Witness ==
    /\ last.call.op = "validateMasterPassword"
    /\ last.ret = RetBool(FALSE)
    /\ ~last.raced
    /\ ~IsAppInitialized
    /\ nextId > 1

\* ------------------------------------------------------------- C13
\* C13: when initializeApp(p) completes on an uninitialized vault, the initialized
\* flag is true, the verifier and data slots are written, validateMasterPassword(p)
\* on them gives true and getPasswords(p) gives the empty collection.
C13_InitializeEstablishes ==
    [][\A p \in Procs :
          (Settles(p, "init_write") /\ ~IsAppInitialized) =>
             /\ last'.ret = RetVoid
             /\ IsAppInitialized'
             /\ Len(localStorage'[STORAGE_KEYS.PASSWORD_VERIFIER]) = 1
             /\ Len(DataSlot') = 1
             /\ ValidateMasterPassword(localStorage'[STORAGE_KEYS.PASSWORD_VERIFIER], call[p].pw)
             /\ GetPasswords(DataSlot', call[p].pw) = RetList(<<>>)]_vars

\* initializeApp has just completed on a vault that had been reset.
C13_Witness ==
    /\ last.call.op = "initializeApp"
    /\ last.ret = RetVoid
    /\ last.before = Absent
    /\ IsAppInitialized
    /\ nextId > 1

\* ------------------------------------------------------------- C14
\* C14: resetApp() takes no password and can run in any state, also while calls
\* are suspended; the state it leaves has the three slots absent, reports not
\* initialized, and for every password validateMasterPassword on it gives false
\* and getPasswords the empty collection.
C14_ResetClears ==
    /\ ENABLED ResetApp
    /\ last.call.op = "resetApp" =>
          /\ \A k \in DOMAIN localStorage : localStorage[k] = Absent
          /\ ~IsAppInitialized
          /\ \A pw \in Passwords :
                /\ ~ValidateMasterPassword(GetItem(STORAGE_KEYS.PASSWORD_VERIFIER), pw)
                /\ GetPasswords(DataSlot, pw) = RetList(<<>>)

\* A vault holding an entry has just been reset while a mutation was suspended
\* before its write.
C14_Witness ==
    /\ last.call.op = "resetApp"
    /\ Len(last.before) = 1
    /\ Len(Entries(last.before, "p1")) > 0
    /\ \E p \in Procs : pc[p] \in {"add_write", "upd_write", "del_write"}

\* ------------------------------------------------------------- C15
\* C15: across any sequence of addPassword, updatePassword and deletePassword
\* calls, from one persisted state to the next every entry id that stays in the
\* collection keeps its createdAt, and its updatedAt does not decrease.
C15_TimestampsMonotone ==
    [][\A pw \in Passwords :
          LET before == Entries(DataSlot, pw)
              after == Entries(DataSlot', pw)
          IN  \A i \in 1..Len(before), j \in 1..Len(after) :
                 before[i].id = after[j].id =>
                    /\ after[j].createdAt = before[i].createdAt
                    /\ after[j].updatedAt.iso >= before[i].updatedAt.iso]_vars

\* An update has just moved the updatedAt of a stored entry forward and left its
\* createdAt where it was.
C15_Witness ==
    /\ last.call.op = "updatePassword"
    /\ last.ret.kind = "entry"
    /\ LET before == Entries(last.before, last.call.pw)
           after == Entries(DataSlot, last.call.pw)
       IN  \E i \in 1..Len(before), j \in 1..Len(after) :
              /\ before[i].id = last.call.id
              /\ after[j].id = last.call.id
              /\ after[j].updatedAt.iso > before[i].updatedAt.iso
              /\ after[j].createdAt = before[i].createdAt

\* ------------------------------------------------------------- C16
\* C16: in every reachable state the decoded collection holds no two entries with
\* the same id, and no operation changes the id of an existing entry: what a
\* mutation writes has, entry by entry, the ids of what it read (after the
\* removed one, shifted by one place).
C16_IdsUniqueImmutable ==
    [][(\A pw \in Passwords :
           LET after == Entries(DataSlot', pw)
           IN  \A i, j \in 1..Len(after) : after[i].id = after[j].id => i = j)
       /\
       (\A p \in Procs :
           LET kept == Entries(DataSlot', call[p].pw)
               read == ReadBy(p)
           IN  /\ (Settles(p, "add_write") \/ Settles(p, "upd_write")) =>
                     \A n \in 1..Len(read) : kept[n].id = read[n].id
               /\ Settles(p, "del_write") =>
                     \A n \in 1..Len(kept) :
                        kept[n].id = read[IF n < index[p] THEN n ELSE n + 1].id)]_vars

\* An update has just been written to a collection of two entries, whose ids differ.
C16_Witness ==
    /\ last.call.op = "updatePassword"
    /\ last.ret.kind = "entry"
    /\ LET after == Entries(DataSlot, last.call.pw)
       IN  /\ Len(after) = 2
           /\ after[1].id # after[2].id
           /\ last.ret.entries[1].id = last.call.id

\* ------------------------------------------------------------- C17
\* C17: no step of addPassword, updatePassword or deletePassword writes or removes
\* the verifier slot or the initialized flag; the one step of theirs that writes
\* the data slot puts the whole encoded collection there; and no step of
\* validateMasterPassword or getPasswords writes any slot.
C17_MutationsWriteDataOnly ==
    [][\A p \in Procs :
          LET op == IF pc[p] = "idle" THEN call'[p].op ELSE call[p].op
              writing == pc[p] \in {"add_write", "upd_write", "del_write"}
          IN  pc'[p] # pc[p] =>
                /\ op \in {"addPassword", "updatePassword", "deletePassword"} =>
                      /\ localStorage'[STORAGE_KEYS.PASSWORD_VERIFIER]
                            = localStorage[STORAGE_KEYS.PASSWORD_VERIFIER]
                      /\ localStorage'[STORAGE_KEYS.IS_INITIALIZED]
                            = localStorage[STORAGE_KEYS.IS_INITIALIZED]
                      /\ ~writing => DataSlot' = DataSlot
                      /\ writing =>
                            /\ Len(DataSlot') = 1
                            /\ Decrypt(DataSlot'[1], call[p].pw).ok
                            /\ Decrypt(DataSlot'[1], call[p].pw).pt = JSONStringify(passwords[p])
                /\ op \in {"validateMasterPassword", "getPasswords"} =>
                      localStorage' = localStorage]_vars

\* A mutation that was suspended when the vault was reset has just written: the
\* data slot is there, the verifier and the flag are not.
C17_Witness ==
    /\ last.call.op \in {"addPassword", "updatePassword", "deletePassword"}
    /\ last.ret.kind \in {"entry", "bool"}
    /\ last.raced
    /\ Present(STORAGE_KEYS.ENCRYPTED_DATA)
    /\ ~Present(STORAGE_KEYS.PASSWORD_VERIFIER)
    /\ ~IsAppInitialized

\* ------------------------------------------------------------- C18
\* C18: for every plaintext p and password k, decrypt(encrypt(p, k), k) returns
\* exactly p.
C18_RoundTrip ==
    (/\ trial.opened # <<>>
     /\ trial.blob = <<Original>>
     /\ trial.opened[1].pw = trial.sealed[1].pw)
        => trial.opened[1].ret = Settled("string", FALSE, <<trial.sealed[1].pt>>, "")

\* ------------------------------------------------------------- C19
\* C19: for every plaintext p and passwords k1 # k2, decrypt(encrypt(p, k1), k2)
\* fails with an error and returns no plaintext.
C19_WrongKeyFails ==
    (/\ trial.opened # <<>>
     /\ trial.blob = <<Original>>
     /\ trial.opened[1].pw # trial.sealed[1].pw)
        => /\ trial.opened[1].ret.kind = "throw"
           /\ trial.opened[1].ret.entries = <<>>
           /\ trial.opened[1].ret = Throw("OperationError")

\* A blob holding a text of MaxText characters has been opened with the other
\* password, and the call was rejected.
C19_Witness ==
    /\ trial.opened # <<>>
    /\ trial.blob = <<Original>>
    /\ trial.opened[1].pw # trial.sealed[1].pw
    /\ Len(trial.sealed[1].pt.text) = MaxText
    /\ trial.opened[1].ret.kind = "throw"

\* ------------------------------------------------------------- C20
\* C20: decrypt fails whenever the blob was altered or is malformed, and what the
\* caller observes is what a wrong password gives: opening, verifying or listing
\* the altered blob with the right password settles as opening, verifying or
\* listing the blob as it was sealed with a wrong one (same error, respectively
\* false).
C20_AlteredLikeWrongPassword ==
    (trial.sealed # <<>> /\ trial.blob # <<Original>>) =>
        \A k2 \in Passwords \ {trial.sealed[1].pw} :
           /\ (trial.opened # <<>> /\ trial.opened[1].pw = trial.sealed[1].pw) =>
                 /\ trial.opened[1].ret.kind = "throw"
                 /\ trial.opened[1].ret = DecryptSettled(Decrypt(Original, k2))
           /\ (trial.verified # <<>> /\ trial.verified[1].pw = trial.sealed[1].pw) =>
                 trial.verified[1].ret = RetBool(VerifyPassword(k2, Original))
           /\ (trial.listed # <<>> /\ trial.listed[1].pw = trial.sealed[1].pw) =>
                 trial.listed[1].ret = GetPasswords(<<Original>>, k2)

\* ------------------------------------------------------------- C21
\* C21: every encrypt call draws a new salt and a new IV: the blob a storage
\* function writes carries a salt and an IV that no blob written before carried,
\* so it differs from the blob it replaces also when the plaintext and the
\* password are the same, and the two blobs of initializeApp differ in both.
C21_FreshSaltAndIV ==
    [][\A p \in Procs :
          LET Fresh(b) == \A q \in seals : q[1] # b.salt /\ q[2] # b.iv
              v == localStorage'[STORAGE_KEYS.PASSWORD_VERIFIER][1]
              d == DataSlot'[1]
          IN  /\ (Settles(p, "add_write") \/ Settles(p, "upd_write") \/ Settles(p, "del_write"))
                    => /\ Fresh(d)
                       /\ DataSlot' # DataSlot
              /\ Settles(p, "init_write")
                    => /\ Fresh(v) /\ Fresh(d)
                       /\ v.salt # d.salt /\ v.iv # d.iv
                       /\ DataSlot' # DataSlot]_vars

\* A delete has just left the empty collection in the data slot, the plaintext
\* initializeApp sealed under the same password, in the fourth blob written.
C21_Witness ==
    /\ last.call.op = "deletePassword"
    /\ last.ret = RetBool(TRUE)
    /\ IsAppInitialized
    /\ Decrypt(DataSlot[1], last.call.pw).pt = JSONStringify(<<>>)
    /\ Cardinality(seals) = 4

\* ------------------------------------------------------------- C22
\* C22: for every password s and every character c of a class (lowercase,
\* uppercase, digit, symbol) that s does not contain, the score of s followed by c
\* is at least the score of s.
C22_AppendMissingClassMonotone ==
    tool.fn = "evaluatePasswordStrength" /\ tool.ret # Pending =>
        LET str == tool.password[1]
        IN  \A class \in {LOWERCASE, UPPERCASE, NUMBERS, SYMBOLS} :
               Range(str) \cap Range(class) = {} =>
                  \A c \in Range(class) :
                     EvaluatePasswordStrength(str \o <<c>>).score >= tool.ret.score

\* ------------------------------------------------------------- C23
\* C23: for every policy with at least one enabled class and every requested length
\* L, generatePassword returns a string of length exactly max(L, number of enabled
\* classes) that has a character of every enabled class and none of a disabled one.
C23_GenerateMeetsPolicy ==
    (tool.fn = "generatePassword" /\ tool.ret # Pending /\ Included(tool.options[1]) # <<>>) =>
        /\ tool.ret.kind = "string"
        /\ Len(tool.ret.entries) = Max(tool.options[1].length, Len(Included(tool.options[1])))
        /\ \A n \in 1..Len(Classes) :
              tool.options[1][Classes[n].include]
                 <=> Range(tool.ret.entries) \cap Range(Classes[n].chars) # {}

\* ------------------------------------------------------------- C24
\* C24: evaluatePasswordStrength returns an integer score within 0..100 and a level
\* fixed by the score alone: weak below 30, fair from 30 below 50, good from 50
\* below 75, strong from 75.
C24_ScoreRangeAndLevel ==
    (tool.fn = "evaluatePasswordStrength" /\ tool.ret # Pending) =>
        /\ tool.ret.score \in 0..100
        /\ tool.ret.level = "weak" <=> tool.ret.score < 30
        /\ tool.ret.level = "fair" <=> (30 <= tool.ret.score /\ tool.ret.score < 50)
        /\ tool.ret.level = "good" <=> (50 <= tool.ret.score /\ tool.ret.score < 75)
        /\ tool.ret.level = "strong" <=> tool.ret.score >= 75

\* A password whose penalties outweigh its points has been scored.
C24_Witness ==
    /\ tool.fn = "evaluatePasswordStrength"
    /\ tool.ret # Pending
    /\ RawScore(tool.password[1]) < 0
    /\ tool.ret.score = 0
    /\ tool.ret.level = "weak"

\* ------------------------------------------------------------- C25
\* C25: generatePassword fails with the policy error, and returns no string, exactly
\* when all four classes are disabled, whatever length is requested.
C25_PolicyErrorIffNoClass ==
    (tool.fn = "generatePassword" /\ tool.ret # Pending) =>
        LET options == tool.options[1]
            none == /\ ~options.includeLowercase /\ ~options.includeUppercase
                    /\ ~options.includeNumbers /\ ~options.includeSymbols
        IN  /\ none => tool.ret = Throw(PolicyError)
            /\ ~none => (tool.ret.kind = "throw" => tool.ret.err # PolicyError)

\* No class is enabled and the length asked for is one no array of random values
\* can be filled for: the call has failed with the policy error.
C25_Witness ==
    /\ tool.fn = "generatePassword"
    /\ Included(tool.options[1]) = <<>>
    /\ QuotaExceeded(tool.options[1].length)
    /\ tool.ret = Throw(PolicyError)

\* ------------------------------------------------------------- C30
\* C30: the shuffle of generatePassword permutes the list built before it: for every
\* i from n-1 down to 1 the swap index j has 0 <= j <= i, and every character occurs
\* as often after the shuffle as before it.
C30_ShuffleIsPermutation ==
    (tool.fn = "generatePassword" /\ tool.ret.kind = "string") =>
        LET Count(str, c) == Cardinality({n \in 1..Len(str) : str[n] = c})
        IN  /\ \A i \in 1..(Len(tool.chars) - 1) :
                  SwapIndex(tool.random.shuffle, i) \in 0..i
            /\ Len(tool.ret.entries) = Len(tool.chars)
            /\ \A c \in Range(tool.chars) \cup Range(tool.ret.entries) :
                  Count(tool.ret.entries, c) = Count(tool.chars, c)

\* A list of three different characters or more has come out in another order.
C30_Witness ==
    /\ tool.fn = "generatePassword"
    /\ tool.ret.kind = "string"
    /\ Cardinality(Range(tool.chars)) >= 3
    /\ tool.ret.entries # tool.chars

\* ------------------------------------------------------------- C26
\* C26: when the data slot is present, an addPassword, updatePassword or
\* deletePassword call whose password does not open the current data blob fails
\* with an error and writes nothing: the three slots are as they were.
C26_WrongPasswordWritesNothing ==
    [][\A p \in Procs :
          (/\ pc[p] \in {"add_build", "upd_build", "del_build"}
           /\ pc'[p] # pc[p]
           /\ Present(STORAGE_KEYS.ENCRYPTED_DATA)
           /\ blobRead[p] = DataSlot
           /\ ~Decrypt(DataSlot[1], call[p].pw).ok)
             => (/\ pc'[p] = "idle"
                 /\ last'.call = call[p]
                 /\ last'.ret.kind = "throw"
                 /\ localStorage' = localStorage)]_vars

\* An initialized vault holds a collection under one password and an update made
\* with the other password has just failed.
C26_Witness ==
    /\ last.call.op = "updatePassword"
    /\ last.ret = Throw(DecryptFailedError)
    /\ IsAppInitialized
    /\ Present(STORAGE_KEYS.ENCRYPTED_DATA)
    /\ ~Decrypt(DataSlot[1], last.call.pw).ok
    /\ \E pw \in Passwords : Len(Entries(DataSlot, pw)) > 0

\* ------------------------------------------------------------- C27
\* C27: in every reachable state, if the data slot is present then the verifier
\* slot is present and the data blob opens under exactly the passwords the verifier
\* accepts.
C27_DataKeyedLikeVerifier ==
    Present(STORAGE_KEYS.ENCRYPTED_DATA) =>
        /\ Present(STORAGE_KEYS.PASSWORD_VERIFIER)
        /\ \A pw \in Passwords :
              Decrypt(DataSlot[1], pw).ok
                 <=> VerifyPassword(pw, localStorage[STORAGE_KEYS.PASSWORD_VERIFIER][1])

\* ------------------------------------------------------------- C28
\* C28: in every state of the session isAuthenticated is true if and only if
\* masterPassword is not null; login(p) sets both only when validateMasterPassword(p)
\* returned true, and otherwise leaves the session as it is and returns false
\* without raising; logout clears both.
C28_SessionState ==
    /\ [](/\ auth.state.isAuthenticated <=> auth.state.masterPassword # <<>>
          /\ Queued.isAuthenticated <=> Queued.masterPassword # <<>>)
    /\ [][/\ LoginDone =>
                IF ValidateMasterPassword(auth.verifier, auth.password[1])
                THEN /\ auth'.ret = RetBool(TRUE)
                     /\ Queued'.isAuthenticated
                     /\ Queued'.masterPassword = auth.password
                ELSE /\ auth'.ret = RetBool(FALSE)
                     /\ auth'.state = auth.state
                     /\ [Queued' EXCEPT !.submitting = FALSE]
                           = [Queued EXCEPT !.submitting = FALSE]
                     /\ auth'.timers = auth.timers
          /\ Logout => (~Queued'.isAuthenticated /\ Queued'.masterPassword = <<>>)]_vars

\* A login with a password the verifier rejects has returned false while a session
\* under the other password was open, and the session is still open.
C28_Witness ==
    /\ auth.ret = RetBool(FALSE)
    /\ auth.pc = "idle"
    /\ auth.queue = <<>>
    /\ auth.state.isAuthenticated
    /\ ValidateMasterPassword(GetItem(STORAGE_KEYS.PASSWORD_VERIFIER), auth.state.masterPassword[1])

Rendered == auth.queue = <<>> /\ auth.passive = "none"

====
